---- MODULE Spec2Model ----
(***************************************************************************)
(* Model of arduino-cli's build pipeline (legacy/builder/builder.go) and   *)
(* of the package manager's board resolution (packagemanager).             *)
(*                                                                         *)
(* The specifications share the variables:                                 *)
(*   Spec          one invocation of Builder.Run, a statement group a step *)
(*   PipelineSpec  one call of RunBuilder or of RunPreprocess              *)
(*   PMSpec        a PackageManager with a registry, calls to ResolveFQBN  *)
(*   ToolSpec      a PackageManager with tools, the resolution operations  *)
(*   RegSpec       a PackageManager from construction: loads, clears,      *)
(*                 finders, event handler                                  *)
(*   ConcSpec      goroutines calling the resolution operations            *)
(***************************************************************************)
EXTENDS Integers, Sequences, FiniteSets, TLC

VARIABLES
    pc,          \* Builder.Run: position in the function body
    idx,         \* Builder.Run: index of the next command of the current loop
    mainErr,     \* Builder.Run: var mainErr error
    otherErr,    \* Builder.Run: var otherErr error
    ret,         \* Builder.Run: the returned error (meaningful when pc = "done")
    subSteps,    \* ctx.Builder.Progress: stack of registered step budgets
    trace,       \* calls made on the collaborators so far, in order
    packages,    \* PackageManager.packages: the registry
    call,        \* PackageManager: the last operation invoked and its arguments
    res,         \* PackageManager: what that operation returned
    entry,       \* which exported function of the builder package was called
    opc,         \* RunBuilder / RunPreprocess: position in the function body
    oidx,        \* runCommands: index of the next command
    oret,        \* RunBuilder / RunPreprocess: the returned error
    stdout,      \* ctx.BuilderLogger: what WriteStdout was handed, in order
    log,         \* PackageManager: the loads and clears made so far, in order
    procs,       \* PackageManager: the goroutines calling into it
    eventHandler \* PackageManager.eventHandler

builderVars == <<pc, idx, mainErr, otherErr, ret, subSteps, trace>>
builderVarsButTrace == <<pc, idx, mainErr, otherErr, ret, subSteps>>
pmVars == <<packages, call, res>>
pipeVars == <<entry, opc, oidx, oret, stdout>>
vars == <<pc, idx, mainErr, otherErr, ret, subSteps, trace, packages, call, res,
          entry, opc, oidx, oret, stdout, log, procs, eventHandler>>

\* What an action of the builder, and one of the package manager, leaves alone.
outsideBuilder == <<pmVars, pipeVars, log, procs, eventHandler>>
outsidePM == <<builderVars, pipeVars, log, procs, eventHandler>>

(***************************************************************************)
(*                        BUILDER  (builder.go)                            *)
(***************************************************************************)

\* The main command list of Builder.Run, in list order.
MainCommands ==
    << "containerBuildOptions",
       "recipe.hooks.prebuild",
       "PrepareSketchBuildPath",
       "logIfVerbose",
       "findIncludes",
       "warnAboutArchIncompatibleLibraries",
       "logIfVerbose",
       "preprocessSketchCommand",
       "logIfVerbose",
       "recipe.hooks.sketch.prebuild",
       "BuildSketch",
       "recipe.hooks.sketch.postbuild",
       "logIfVerbose",
       "recipe.hooks.libraries.prebuild",
       "RemoveUnusedCompiledLibraries",
       "BuildLibraries",
       "recipe.hooks.libraries.postbuild",
       "logIfVerbose",
       "recipe.hooks.core.prebuild",
       "BuildCore",
       "recipe.hooks.core.postbuild",
       "logIfVerbose",
       "recipe.hooks.linking.prelink",
       "Link",
       "recipe.hooks.linking.postlink",
       "recipe.hooks.objcopy.preobjcopy",
       "recipe.objcopy.",
       "recipe.hooks.objcopy.postobjcopy",
       "MergeSketchWithBootloader",
       "recipe.hooks.postbuild" >>

\* The second command list of Builder.Run, in list order.
SecondaryCommands ==
    << "PrintUsedAndNotUsedLibraries",
       "PrintUsedLibraries",
       "ExportProjectCMake",
       "Size" >>

\* Commands whose closure ends in "return nil" whatever the collaborator did.
AlwaysNil ==
    { "logIfVerbose", "warnAboutArchIncompatibleLibraries",
      "PrintUsedAndNotUsedLibraries", "PrintUsedLibraries" }

\* Secondary commands that are handed the flag mainErr != nil.
TakesFailureFlag == { "PrintUsedAndNotUsedLibraries", "ExportProjectCMake", "Size" }

\* error values: nil, or the error a collaborator produced (which sequence,
\* which position), with or without the stack errors.WithStack attaches.
NilErr == [seq |-> "nil", pos |-> 0, stack |-> FALSE]

StageErr(seq, k) == [seq |-> seq, pos |-> k, stack |-> FALSE]

\* errors.WithStack(err): the same cause, annotated with a stack.
WithStack(err) == [err EXCEPT !.stack = TRUE]

\* errors.Cause: strips the annotation again.
Cause(err) == [err EXCEPT !.stack = FALSE]

\* The errors command.Run can return for the command at position k of a list.
RunOutcomes(seq, cmds, k) ==
    IF cmds[k] \in AlwaysNil THEN {NilErr} ELSE {NilErr, StageErr(seq, k)}

Event(ev, pos, ok, flag) == [ev |-> ev, pos |-> pos, ok |-> ok, flag |-> flag]

\* ctx.Builder.Progress.CompleteStep() followed by PushProgress()
Advance(t) == t \o << Event("CompleteStep", 0, TRUE, FALSE),
                      Event("PushProgress", 0, TRUE, FALSE) >>

BuilderInit ==
    /\ pc = "start"
    /\ idx = 1
    /\ mainErr = NilErr
    /\ otherErr = NilErr
    /\ ret = NilErr
    /\ subSteps = << >>
    /\ trace = << >>

\* Faulty variant of MkdirAll: Run goes on when the build path could not be
\* created.
MkdirAllIgnoresError ==
    /\ pc = "start"
    /\ \E err \in {NilErr, StageErr("mkdir", 0)} :
         /\ trace' = Append(trace, Event("MkdirAll", 0, err = NilErr, FALSE))
         /\ ret' = ret
         /\ pc' = "register"
    /\ UNCHANGED <<idx, mainErr, otherErr, subSteps>>

\* builder.go:33-35  ctx.Builder.GetBuildPath().MkdirAll(), return on error
MkdirAll ==
    /\ pc = "start"
    /\ \E err \in {NilErr, StageErr("mkdir", 0)} :
         /\ trace' = Append(trace, Event("MkdirAll", 0, err = NilErr, FALSE))
         /\ IF err # NilErr
            THEN /\ ret' = err
                 /\ pc' = "done"
            ELSE /\ ret' = ret
                 /\ pc' = "register"
    /\ UNCHANGED <<idx, mainErr, otherErr, subSteps>>

\* builder.go:134-135  AddSubSteps(len(commands) + 5); defer RemoveSubSteps()
AddSubSteps ==
    /\ pc = "register"
    /\ subSteps' = Append(subSteps, Len(MainCommands) + 5)
    /\ trace' = Append(trace, Event("AddSubSteps", Len(MainCommands) + 5, TRUE, FALSE))
    /\ pc' = "main"
    /\ UNCHANGED <<idx, mainErr, otherErr, ret>>

\* Faulty variants of MainLoopNext: the loop leaves Run's remaining work out
\* on an error, ignores the error, or skips the compilation database.
MainLoopNextReturn(k, err) ==
    IF err # NilErr THEN "return"
    ELSE IF k = Len(MainCommands) THEN "save" ELSE "main"

MainLoopNextContinue(k, err) ==
    IF k = Len(MainCommands) THEN "save" ELSE "main"

MainLoopNextSkipSave(k, err) ==
    IF err # NilErr THEN "secondary"
    ELSE IF k = Len(MainCommands) THEN "save" ELSE "main"

\* Where the main loop goes after the iteration at position k returned err.
MainLoopNext(k, err) ==
    IF err # NilErr \/ k = Len(MainCommands) THEN "save" ELSE "main"

\* Faulty variant of RunMainCommand: the tracker advances whatever the
\* command returned.
RunMainCommandAlwaysAdvances ==
    /\ pc = "main"
    /\ \E err \in RunOutcomes("main", MainCommands, idx) :
         /\ mainErr' = IF err # NilErr THEN WithStack(err) ELSE mainErr
         /\ trace' = Advance(Append(trace, Event("main", idx, err = NilErr, FALSE)))
         /\ pc' = MainLoopNext(idx, err)
         /\ idx' = IF pc' = "main" THEN idx + 1 ELSE 1
    /\ UNCHANGED <<otherErr, ret, subSteps>>

\* builder.go:137-146  one iteration of the main loop
RunMainCommand ==
    /\ pc = "main"
    /\ \E err \in RunOutcomes("main", MainCommands, idx) :
         /\ IF err # NilErr
            THEN /\ mainErr' = WithStack(err)
                 /\ trace' = Append(trace, Event("main", idx, FALSE, FALSE))
            ELSE /\ mainErr' = mainErr
                 /\ trace' = Advance(Append(trace, Event("main", idx, TRUE, FALSE)))
         /\ pc' = MainLoopNext(idx, err)
         /\ idx' = IF pc' = "main" THEN idx + 1 ELSE 1
    /\ UNCHANGED <<otherErr, ret, subSteps>>

\* builder.go:148  ctx.Builder.SaveCompilationDatabase()
SaveCompilationDatabase ==
    /\ pc = "save"
    /\ trace' = Append(trace, Event("SaveCompilationDatabase", 0, TRUE, FALSE))
    /\ pc' = "secondary"
    /\ UNCHANGED <<idx, mainErr, otherErr, ret, subSteps>>

\* Faulty variant of SecondaryLoopNext: the second loop ignores the error.
SecondaryLoopNextContinue(k, err) ==
    IF k = Len(SecondaryCommands) THEN "return" ELSE "secondary"

\* Where the second loop goes after the iteration at position k returned err.
SecondaryLoopNext(k, err) ==
    IF err # NilErr \/ k = Len(SecondaryCommands) THEN "return" ELSE "secondary"

\* Faulty variant of FailureFlag: the flag tells that the main sequence
\* succeeded.
FailureFlagInverted(cmd, mErr) == cmd \in TakesFailureFlag /\ mErr = NilErr

\* The flag a secondary command receives (builder.go:153,164,171).
FailureFlag(cmd, mErr) == cmd \in TakesFailureFlag /\ mErr # NilErr

\* builder.go:174-183  one iteration of the second loop
RunSecondaryCommand ==
    /\ pc = "secondary"
    /\ \E err \in RunOutcomes("secondary", SecondaryCommands, idx) :
         LET flag == FailureFlag(SecondaryCommands[idx], mainErr) IN
         /\ IF err # NilErr
            THEN /\ otherErr' = WithStack(err)
                 /\ trace' = Append(trace, Event("secondary", idx, FALSE, flag))
            ELSE /\ otherErr' = otherErr
                 /\ trace' = Advance(Append(trace, Event("secondary", idx, TRUE, flag)))
         /\ pc' = SecondaryLoopNext(idx, err)
         /\ idx' = IF pc' = "secondary" THEN idx + 1 ELSE 1
    /\ UNCHANGED <<mainErr, ret, subSteps>>

\* Faulty variant of RunResult: the later error wins.
RunResultLastWins(mErr, oErr) == IF oErr # NilErr THEN oErr ELSE mErr

\* builder.go:185-189  the error Run reports
RunResult(mErr, oErr) == IF mErr # NilErr THEN mErr ELSE oErr

\* builder.go:185-189 and the deferred RemoveSubSteps of line 135
Return ==
    /\ pc = "return"
    /\ ret' = RunResult(mainErr, otherErr)
    /\ subSteps' = SubSeq(subSteps, 1, Len(subSteps) - 1)
    /\ trace' = Append(trace, Event("RemoveSubSteps", 0, TRUE, FALSE))
    /\ pc' = "done"
    /\ UNCHANGED <<idx, mainErr, otherErr>>

(***************************************************************************)
(*          RunBuilder, RunPreprocess, runCommands  (builder.go)           *)
(***************************************************************************)

\* The command list of RunBuilder: the Builder command alone.
RunBuilderCommands == << "Builder" >>

\* The command list of Preprocess.Run, in list order.
PreprocessCommands ==
    << "containerBuildOptions",
       "recipe.hooks.prebuild",
       "PrepareSketchBuildPath",
       "findIncludes",
       "warnAboutArchIncompatibleLibraries",
       "preprocessSketchCommand" >>

\* The list runCommands is handed by each entry point.
CommandsOf(e) == IF e = "RunBuilder" THEN RunBuilderCommands ELSE PreprocessCommands

\* Builder.Run called on its own: no outer function is running.
PipeIdle ==
    /\ entry = "Builder.Run"
    /\ opc = "none"
    /\ oidx = 1
    /\ oret = NilErr
    /\ stdout = << >>

\* RunBuilder or RunPreprocess has just been called.
PipeInit ==
    /\ entry \in {"RunBuilder", "RunPreprocess"}
    /\ opc = IF entry = "RunBuilder" THEN "register" ELSE "start"
    /\ oidx = 1
    /\ oret = NilErr
    /\ stdout = << >>
    /\ pc = "idle"
    /\ idx = 1
    /\ mainErr = NilErr
    /\ otherErr = NilErr
    /\ ret = NilErr
    /\ subSteps = << >>
    /\ trace = << >>

\* builder.go:201-203  Preprocess.Run: MkdirAll, return on error
PreprocessMkdirAll ==
    /\ entry = "RunPreprocess"
    /\ opc = "start"
    /\ \E err \in {NilErr, StageErr("mkdir", 0)} :
         /\ trace' = Append(trace, Event("MkdirAll", 0, err = NilErr, FALSE))
         /\ IF err # NilErr
            THEN /\ oret' = err
                 /\ opc' = "done"
            ELSE /\ oret' = oret
                 /\ opc' = "register"
    /\ UNCHANGED <<entry, oidx, stdout, builderVarsButTrace>>

\* builder.go:237-238  runCommands: AddSubSteps(len(commands)); defer RemoveSubSteps()
RunCommandsAddSubSteps ==
    /\ opc = "register"
    /\ subSteps' = Append(subSteps, Len(CommandsOf(entry)))
    /\ trace' = Append(trace, Event("AddSubSteps", Len(CommandsOf(entry)), TRUE, FALSE))
    /\ opc' = "loop"
    /\ UNCHANGED <<entry, oidx, oret, stdout, pc, idx, mainErr, otherErr, ret>>

\* Where the loop of runCommands goes after the iteration at position k
\* returned err: to the deferred call when it returns, or round again.
RunCommandsNext(cmds, k, err) ==
    IF err # NilErr \/ k = Len(cmds) THEN "unwind" ELSE "loop"

\* builder.go:240-248  what runCommands does with the error of command k
RunCommandsHandle(seq, k, err) ==
    /\ IF err # NilErr
       THEN /\ oret' = WithStack(err)
            /\ trace' = Append(trace, Event(seq, k, FALSE, FALSE))
       ELSE /\ oret' = oret
            /\ trace' = Advance(Append(trace, Event(seq, k, TRUE, FALSE)))
    /\ opc' = RunCommandsNext(CommandsOf(entry), k, err)
    /\ oidx' = IF opc' = "loop" THEN k + 1 ELSE 1

\* builder.go:240-248  one iteration of runCommands over a command of
\* Preprocess.Run
RunPreprocessCommand ==
    /\ entry = "RunPreprocess"
    /\ opc = "loop"
    /\ \E err \in RunOutcomes("preprocess", PreprocessCommands, oidx) :
         RunCommandsHandle("preprocess", oidx, err)
    /\ UNCHANGED <<entry, stdout, pc, idx, mainErr, otherErr, ret, subSteps>>

\* builder.go:242  command.Run(ctx) on the Builder command: Builder.Run starts
CallBuilderRun ==
    /\ entry = "RunBuilder"
    /\ opc = "loop"
    /\ opc' = "call"
    /\ pc' = "start"
    /\ UNCHANGED <<entry, oidx, oret, stdout, idx, mainErr, otherErr, ret, subSteps, trace>>

\* builder.go:243-248  Builder.Run has returned to runCommands
BuilderRunReturned ==
    /\ entry = "RunBuilder"
    /\ opc = "call"
    /\ pc = "done"
    /\ RunCommandsHandle("builder", oidx, ret)
    /\ UNCHANGED <<entry, stdout, pc, idx, mainErr, otherErr, ret, subSteps>>

\* Faulty variant of AfterRunCommands: Preprocess.Run goes on to read the
\* file whatever runCommands returned.
AfterRunCommandsIgnoresError(e, err) ==
    IF e = "RunPreprocess" THEN "read" ELSE "done"

\* builder.go:223-225,257  what the caller of runCommands does with its result
AfterRunCommands(e, err) ==
    IF e = "RunPreprocess" /\ err = NilErr THEN "read" ELSE "done"

\* Faulty variant of RunCommandsReturn: runCommands returns without the
\* deferred call.
RunCommandsReturnNoDefer ==
    /\ opc = "unwind"
    /\ opc' = AfterRunCommands(entry, oret)
    /\ UNCHANGED <<entry, oidx, oret, stdout, builderVars>>

\* builder.go:238  the deferred RemoveSubSteps, then the return to the caller
RunCommandsReturn ==
    /\ opc = "unwind"
    /\ subSteps' = SubSeq(subSteps, 1, Len(subSteps) - 1)
    /\ trace' = Append(trace, Event("RemoveSubSteps", 0, TRUE, FALSE))
    /\ opc' = AfterRunCommands(entry, oret)
    /\ UNCHANGED <<entry, oidx, oret, stdout, pc, idx, mainErr, otherErr, ret>>

\* builder.go:228-231  read the preprocessed sketch, return on error
ReadFile ==
    /\ opc = "read"
    /\ \E err \in {NilErr, StageErr("readfile", 0)} :
         /\ trace' = Append(trace, Event("ReadFile", 0, err = NilErr, FALSE))
         /\ oret' = err
         /\ opc' = IF err # NilErr THEN "done" ELSE "write"
    /\ UNCHANGED <<entry, oidx, stdout, builderVarsButTrace>>

\* builder.go:232-233  ctx.BuilderLogger.WriteStdout(preprocessedSketch); return nil
WriteStdout ==
    /\ opc = "write"
    /\ stdout' = Append(stdout, "preprocessedSketch")
    /\ oret' = NilErr
    /\ opc' = "done"
    /\ UNCHANGED <<entry, oidx, builderVars>>

(***************************************************************************)
(*                 PACKAGE MANAGER  (packagemanager)                       *)
(***************************************************************************)

\* Bounds of the explored universe.
MaxConfigs == 1

PkgNames == {"arduino", "megaavr"}
Archs == {"avr", "sam"}
BoardIDs == {"uno"}

\* A string is a sequence of atoms; the atom ":" is the separator character
\* and every other atom stands for a run of ordinary characters.
Colon == ":"
Str(name) == <<name>>
Qualified(a, b) == <<a, Colon, b>>

\* The build.core values boards declare: a bare core name, or packager:core.
CoreValues ==
    { Str("arduino") } \cup { Qualified(a, b) : a \in PkgNames, b \in PkgNames }

\* Menu options of an FQBN: "opt" is declared by every board, "bad" by none.
ConfigOptions == {"opt", "bad"}

RECURSIVE SeqsUpTo(_, _)
SeqsUpTo(S, n) ==
    IF n = 0 THEN { << >> }
    ELSE LET shorter == SeqsUpTo(S, n - 1) IN
         shorter \cup { Append(q, x) : q \in shorter, x \in S }

ConfigLists == SeqsUpTo(ConfigOptions, MaxConfigs)

\* cores.FQBN
FQBNs ==
    [Package : PkgNames, PlatformArch : Archs, BoardID : BoardIDs, Configs : ConfigLists]

\* nil pointers / nil map, one per type
NilPkg == "nil"
NilRelease == [pkg |-> "nil", arch |-> "nil"]
NilBoard == [pkg |-> "nil", arch |-> "nil", id |-> "nil"]
NilProps == [core |-> << >>, menu |-> << >>, isNil |-> TRUE]

\* cores.Board: the data of one board of an installed release
BoardData == [core : CoreValues]

PartialFns(D, R) == UNION { [d -> R] : d \in SUBSET D }

\* cores.Platform: an installed release owns boards, otherwise there are none
PlatformData ==
    { [installed |-> FALSE, Boards |-> << >>] }
      \cup { [installed |-> TRUE, Boards |-> b] : b \in PartialFns(BoardIDs, BoardData) }

\* cores.Package
PackageData == [Platforms : PartialFns(Archs, PlatformData)]

\* cores.Packages: every content the registry can have within the universe
Registries == PartialFns(PkgNames, PackageData)

\* cores.NewPackages()
NewPackages == << >>

\* pointers into the registry
ReleaseOf(pkg, arch) == [pkg |-> pkg, arch |-> arch]
BoardOf(pkg, arch, id) == [pkg |-> pkg, arch |-> arch, id |-> id]

\* Platform.GetInstalled() on a platform of the registry: the installed
\* release, or nil when no release is installed.
GetInstalled(pkgs, pkg, arch) ==
    IF pkgs[pkg].Platforms[arch].installed THEN ReleaseOf(pkg, arch) ELSE NilRelease

\* Board.GetBuildProperties(configs): the board's properties merged with the
\* selected menu options; an option the board does not declare is an error.
ConfigsValid(configs) == \A i \in 1..Len(configs) : configs[i] = "opt"

GetBuildProperties(pkgs, board, configs) ==
    [core |-> pkgs[board.pkg].Platforms[board.arch].Boards[board.id].core,
     menu |-> configs, isNil |-> FALSE]

\* strings.Split(s, ":") on a string of atoms
RECURSIVE Split(_)
Split(s) ==
    IF \A i \in 1..Len(s) : s[i] # Colon
    THEN << s >>
    ELSE LET i == CHOOSE j \in 1..Len(s) :
                     s[j] = Colon /\ \A h \in 1..(j - 1) : s[h] # Colon
         IN << SubSeq(s, 1, i - 1) >> \o Split(SubSeq(s, i + 1, Len(s)))

\* The map key a string denotes: a string of one atom is that name, any
\* other string is the key of no package.
KeyOf(s) == IF Len(s) = 1 THEN s[1] ELSE "?"

\* What one call of ResolveFQBN produces: the six returned values, or a panic.
Returned(pkg, rel, board, props, buildRel, err) ==
    [outcome |-> "return", pkg |-> pkg, platformRelease |-> rel, board |-> board,
     buildProperties |-> props, buildPlatformRelease |-> buildRel, err |-> err]

Panicked ==
    [outcome |-> "panic", pkg |-> NilPkg, platformRelease |-> NilRelease,
     board |-> NilBoard, buildProperties |-> NilProps,
     buildPlatformRelease |-> NilRelease, err |-> "nil pointer dereference"]

NoResult ==
    [outcome |-> "none", pkg |-> NilPkg, platformRelease |-> NilRelease,
     board |-> NilBoard, buildProperties |-> NilProps,
     buildPlatformRelease |-> NilRelease, err |-> "nil"]

\* Faulty variant of DefaultBuildPlatform: the variable is left at its zero value.
DefaultBuildPlatformUnset(platformRelease) == NilRelease

\* part_000:176  buildPlatformRelease := platformRelease
DefaultBuildPlatform(platformRelease) == platformRelease

\* part_000:178  len(coreParts) > 1
RefersToPackage(coreParts) == Len(coreParts) > 1

\* part_000:179  referredPackage := coreParts[1]   (Go indexes from 0)
ReferredPackage(coreParts) == coreParts[2]

\* Stands for "the call did not return" among the values of an expression.
PanicMark == [pkg |-> "panic", arch |-> "panic"]

\* part_000:185  buildPackage.Platforms[fqbn.PlatformArch].GetInstalled()
\* A package without that architecture yields a nil *Platform, and
\* GetInstalled is then called on the nil pointer: it panics when it reads
\* the platform's releases, and can only return nil otherwise.
BuildPlatformOf(pkgs, buildPackage, arch) ==
    IF arch \in DOMAIN pkgs[buildPackage].Platforms
    THEN { GetInstalled(pkgs, buildPackage, arch) }
    ELSE { PanicMark, NilRelease }

\* part_000:174-189  the platform used for the build
ResolveBuildPlatform(pkgs, fqbn, targetPackage, platformRelease, board, buildProperties) ==
    LET coreParts == Split(buildProperties.core) IN
    IF RefersToPackage(coreParts)
    THEN LET referredPackage == KeyOf(ReferredPackage(coreParts)) IN
         IF referredPackage \notin DOMAIN pkgs
         THEN { Returned(targetPackage, platformRelease, board, buildProperties,
                         NilRelease, "missing package") }
         ELSE { IF r = PanicMark THEN Panicked
                ELSE Returned(targetPackage, platformRelease, board, buildProperties,
                              r, "nil")
                : r \in BuildPlatformOf(pkgs, referredPackage, fqbn.PlatformArch) }
    ELSE { Returned(targetPackage, platformRelease, board, buildProperties,
                    DefaultBuildPlatform(platformRelease), "nil") }

\* Faulty variant of ResolveBoard: a missing board drops the platform release
\* that was already resolved.
ResolveBoardDropsRelease(pkgs, fqbn, targetPackage, platformRelease) ==
    IF fqbn.BoardID \notin DOMAIN pkgs[targetPackage].Platforms[fqbn.PlatformArch].Boards
    THEN { Returned(targetPackage, NilRelease, NilBoard, NilProps, NilRelease,
                    "board not found") }
    ELSE LET board == BoardOf(targetPackage, fqbn.PlatformArch, fqbn.BoardID) IN
         IF ~ConfigsValid(fqbn.Configs)
         THEN { Returned(targetPackage, platformRelease, board, NilProps, NilRelease,
                         "getting build properties") }
         ELSE ResolveBuildPlatform(pkgs, fqbn, targetPackage, platformRelease, board,
                                   GetBuildProperties(pkgs, board, fqbn.Configs))

\* part_000:161-172  find the board and compute its build properties
ResolveBoard(pkgs, fqbn, targetPackage, platformRelease) ==
    IF fqbn.BoardID \notin DOMAIN pkgs[targetPackage].Platforms[fqbn.PlatformArch].Boards
    THEN { Returned(targetPackage, platformRelease, NilBoard, NilProps, NilRelease,
                    "board not found") }
    ELSE LET board == BoardOf(targetPackage, fqbn.PlatformArch, fqbn.BoardID) IN
         IF ~ConfigsValid(fqbn.Configs)
         THEN { Returned(targetPackage, platformRelease, board, NilProps, NilRelease,
                         "getting build properties") }
         ELSE ResolveBuildPlatform(pkgs, fqbn, targetPackage, platformRelease, board,
                                   GetBuildProperties(pkgs, board, fqbn.Configs))

\* part_000:149-159  find the platform and its installed release
ResolvePlatform(pkgs, fqbn, targetPackage) ==
    IF fqbn.PlatformArch \notin DOMAIN pkgs[targetPackage].Platforms
    THEN { Returned(targetPackage, NilRelease, NilBoard, NilProps, NilRelease,
                    "unknown platform") }
    ELSE LET platformRelease == GetInstalled(pkgs, targetPackage, fqbn.PlatformArch) IN
         IF platformRelease = NilRelease
         THEN { Returned(targetPackage, NilRelease, NilBoard, NilProps, NilRelease,
                         "platform not installed") }
         ELSE ResolveBoard(pkgs, fqbn, targetPackage, platformRelease)

\* part_000:138-190  PackageManager.ResolveFQBN: the set of possible results
ResolveFQBN(pkgs, fqbn) ==
    IF fqbn.Package \notin DOMAIN pkgs
    THEN { Returned(NilPkg, NilRelease, NilBoard, NilProps, NilRelease,
                    "unknown package") }
    ELSE ResolvePlatform(pkgs, fqbn, fqbn.Package)

NoCall == [op |-> "none", fqbn |-> [Package |-> "", PlatformArch |-> "",
                                    BoardID |-> "", Configs |-> << >>]]

\* A package manager whose registry has been populated by the index loader.
Populated ==
    /\ packages \in Registries
    /\ call = NoCall
    /\ res = NoResult

\* The package manager left alone (the builder does not use it).
PMIdle ==
    /\ packages = NewPackages
    /\ call = NoCall
    /\ res = NoResult

\* Faulty variant of PackagesAfterLookup: a lookup that creates the entry
\* it does not find.
PackagesAfterGetOrCreate(pkgs, name) ==
    IF name \in DOMAIN pkgs THEN pkgs
    ELSE [p \in DOMAIN pkgs \cup {name} |->
             IF p = name THEN [Platforms |-> << >>, Tools |-> << >>] ELSE pkgs[p]]

\* part_000:143,180,228  pm.packages.Packages[name]: the registry after the
\* map was indexed; reading a missing key inserts nothing.
PackagesAfterLookup(pkgs, name) == pkgs

\* The zero value of the field eventHandler, and the handlers a caller has.
NilHandler == "nil"
Handlers == {"cli", "daemon"}

\* Faulty variant of RegisterEventHandler: a registered handler is replaced.
RegisterEventHandlerReplaces ==
    \E handler \in Handlers \cup {NilHandler} :
        /\ call' = [op |-> "RegisterEventHandler", handler |-> handler]
        /\ res' = [outcome |-> "return"]
        /\ eventHandler' = handler
        /\ packages' = packages

\* part_000:194-200  PackageManager.RegisterEventHandler: panics when a
\* handler is registered, stores the handler otherwise
RegisterEventHandler ==
    \E handler \in Handlers \cup {NilHandler} :
        /\ call' = [op |-> "RegisterEventHandler", handler |-> handler]
        /\ IF eventHandler # NilHandler
           THEN /\ res' = [outcome |-> "panic"]
                /\ eventHandler' = eventHandler
           ELSE /\ res' = [outcome |-> "return"]
                /\ eventHandler' = handler
        /\ packages' = packages

\* Faulty variant of Clear: the registry is left as it is.
ClearKeepsPackages ==
    /\ packages' = packages
    /\ call' = [NoCall EXCEPT !.op = "Clear"]
    /\ res' = NoResult

\* part_000:74-76  PackageManager.Clear
Clear ==
    /\ packages' = NewPackages
    /\ call' = [NoCall EXCEPT !.op = "Clear"]
    /\ res' = NoResult

\* part_000:138-190  one call of PackageManager.ResolveFQBN on one of fqbns
ResolveCall(fqbns) ==
    \E fqbn \in fqbns :
      \E r \in ResolveFQBN(packages, fqbn) :
        /\ call' = [op |-> "ResolveFQBN", fqbn |-> fqbn]
        /\ res' = r
        /\ packages' = PackagesAfterLookup(packages, fqbn.Package)

CallResolveFQBN == ResolveCall(FQBNs)

(***************************************************************************)
(*                          SPECIFICATIONS                                 *)
(***************************************************************************)

\* No load, no clear and no goroutine: the package manager is used by one
\* caller, or not at all.
Alone ==
    /\ log = << >>
    /\ procs = << >>
    /\ eventHandler = NilHandler

Init == BuilderInit /\ PipeIdle /\ PMIdle /\ Alone

Next ==
    \/ MkdirAll /\ UNCHANGED outsideBuilder
    \/ AddSubSteps /\ UNCHANGED outsideBuilder
    \/ RunMainCommand /\ UNCHANGED outsideBuilder
    \/ SaveCompilationDatabase /\ UNCHANGED outsideBuilder
    \/ RunSecondaryCommand /\ UNCHANGED outsideBuilder
    \/ Return /\ UNCHANGED outsideBuilder

\* One invocation of Builder.Run.
Spec == Init /\ [][Next]_vars

PipelineInit == PipeInit /\ PMIdle /\ Alone

PipelineNext ==
    \/ PreprocessMkdirAll /\ UNCHANGED <<pmVars, log, procs, eventHandler>>
    \/ RunCommandsAddSubSteps /\ UNCHANGED <<pmVars, log, procs, eventHandler>>
    \/ RunPreprocessCommand /\ UNCHANGED <<pmVars, log, procs, eventHandler>>
    \/ CallBuilderRun /\ UNCHANGED <<pmVars, log, procs, eventHandler>>
    \/ BuilderRunReturned /\ UNCHANGED <<pmVars, log, procs, eventHandler>>
    \/ RunCommandsReturn /\ UNCHANGED <<pmVars, log, procs, eventHandler>>
    \/ ReadFile /\ UNCHANGED <<pmVars, log, procs, eventHandler>>
    \/ WriteStdout /\ UNCHANGED <<pmVars, log, procs, eventHandler>>
    \/ Next

\* One call of RunBuilder or of RunPreprocess, Builder.Run running inside the
\* former.
PipelineSpec == PipelineInit /\ [][PipelineNext]_vars

PMNext ==
    \/ Clear /\ UNCHANGED outsidePM
    \/ CallResolveFQBN /\ UNCHANGED outsidePM


PMInit == BuilderInit /\ PipeIdle /\ Populated /\ Alone

\* A populated package manager answering resolution calls.
PMSpec == PMInit /\ [][PMNext]_vars

(***************************************************************************)
(*                    PROPERTIES OF Builder.Run                            *)
(***************************************************************************)

\* Positions of the trace at which a command of the given list was run.
RunsOf(seq) == { i \in 1..Len(trace) : trace[i].ev = seq }

Ran(seq, k) == \E i \in RunsOf(seq) : trace[i].pos = k
Failed(seq, k) == \E i \in RunsOf(seq) : trace[i].pos = k /\ ~trace[i].ok
Succeeded(seq, k) == \E i \in RunsOf(seq) : trace[i].pos = k /\ trace[i].ok

MainPositions == 1..Len(MainCommands)
SecondaryPositions == 1..Len(SecondaryCommands)

Saves == { i \in 1..Len(trace) : trace[i].ev = "SaveCompilationDatabase" }

\* The build path was created, so the sequences were entered.
Started == \E i \in 1..Len(trace) : trace[i].ev = "MkdirAll" /\ trace[i].ok

Finished == pc = "done" /\ Started

\* C1 as stated: when the main stage at position k failed, every secondary
\* stage has been executed by the time Run returns, and Run returns the
\* step-k error.
C1_AsStated ==
    \A k \in MainPositions :
        (Finished /\ Failed("main", k)) =>
            /\ \A j \in SecondaryPositions : Ran("secondary", j)
            /\ Cause(ret) = StageErr("main", k)

\* C1 (amended): when the main stage at position k failed, the secondary
\* sequence has still been executed by the time Run returns, each of its
\* stages having run unless an earlier secondary stage failed, and Run
\* returns the step-k error, also when a secondary stage failed.
C1_SecondaryRunsAfterMainFailure ==
    \A k \in MainPositions :
        (Finished /\ Failed("main", k)) =>
            /\ \A j \in SecondaryPositions :
                   Ran("secondary", j) \/ \E h \in 1..(j - 1) : Failed("secondary", h)
            /\ Ran("secondary", 1)
            /\ ret # NilErr
            /\ Cause(ret) = StageErr("main", k)

\* A main stage failed, a secondary stage failed too, and Run has returned.
C1_Witness ==
    /\ Finished
    /\ \E k \in MainPositions : Failed("main", k)
    /\ \E j \in SecondaryPositions : Failed("secondary", j)

\* The first failing stage of a list, as the trace shows it.
FirstFailure(seq, positions) ==
    IF \E k \in positions : Failed(seq, k)
    THEN WithStack(StageErr(seq, CHOOSE k \in positions :
                        Failed(seq, k) /\ \A h \in 1..(k - 1) : ~Failed(seq, h)))
    ELSE NilErr

\* C2: once the sequences have run, Run returns the error of the failing
\* main stage if there is one, otherwise the error of the first failing
\* secondary stage if there is one, otherwise nil; never a secondary error
\* when a main stage failed.
C2_ResultPriority ==
    Finished =>
        LET m == FirstFailure("main", MainPositions)
            o == FirstFailure("secondary", SecondaryPositions)
        IN /\ m # NilErr => ret = m
           /\ (m = NilErr /\ o # NilErr) => ret = o
           /\ (m = NilErr /\ o = NilErr) => ret = NilErr
           /\ m # NilErr => ret.seq # "secondary"

\* Both sequences had a failing stage and Run has returned.
C2_Witness ==
    /\ Finished
    /\ FirstFailure("main", MainPositions) # NilErr
    /\ FirstFailure("secondary", SecondaryPositions) # NilErr

\* The runs of the main commands, in the order they happened.
MainRuns == SelectSeq(trace, LAMBDA e : e.ev = "main")

\* C3: the main commands run in list order, each at most once, and a command
\* runs only after every command before it has run and returned no error.
C3_MainFailFast ==
    \A n \in 1..Len(MainRuns) :
        /\ MainRuns[n].pos = n
        /\ n < Len(MainRuns) => MainRuns[n].ok

\* Compiling the core failed and Run went on to its end: link never ran.
C3_Witness ==
    /\ Finished
    /\ Failed("main", 20)
    /\ MainCommands[20] = "BuildCore"
    /\ ~Ran("main", 24)

\* C4: SaveCompilationDatabase is never called twice, it comes after every
\* main command that ran and before every secondary command that ran, and it
\* has been called once the main sequence is over, whether it failed or not.
C4_SaveOncePerRun ==
    /\ Cardinality(Saves) <= 1
    /\ \A s \in Saves :
          /\ \A i \in RunsOf("main") : i < s
          /\ \A i \in RunsOf("secondary") : s < i
    /\ RunsOf("secondary") # {} => Saves # {}
    /\ (Started /\ pc \in {"secondary", "return", "done"}) => Cardinality(Saves) = 1

\* The main sequence stopped at a failing stage, the database was saved and
\* the secondary sequence has begun.
C4_Witness ==
    /\ \E k \in MainPositions : Failed("main", k)
    /\ Cardinality(Saves) = 1
    /\ Ran("secondary", 1)

\* The calls of CompleteStep made so far.
CompletedSteps == { i \in 1..Len(trace) : trace[i].ev = "CompleteStep" }

\* The budgets handed to AddSubSteps so far.
RegisteredBudgets == { trace[i].pos : i \in { j \in 1..Len(trace) : trace[j].ev = "AddSubSteps" } }

\* Every stage of both sequences ran and returned no error.
AllStagesSucceeded ==
    /\ \A k \in MainPositions : Succeeded("main", k)
    /\ \A j \in SecondaryPositions : Succeeded("secondary", j)

\* C17 as stated: on a run of Run where every main and every secondary stage
\* succeeded, the number of CompleteStep calls equals the count Run passed
\* to AddSubSteps.
C17_AsStated ==
    (Finished /\ AllStagesSucceeded) =>
        \A budget \in RegisteredBudgets : Cardinality(CompletedSteps) = budget

\* The runs of the secondary commands, in the order they happened.
SecondaryRuns == SelectSeq(trace, LAMBDA e : e.ev = "secondary")

\* C20: the secondary commands run in list order, each at most once, and a
\* command runs only after every secondary command before it has run and
\* returned no error; the first of them has run once the main sequence is
\* over, whether a main stage failed or not.
C20_SecondaryFailFast ==
    /\ \A n \in 1..Len(SecondaryRuns) :
          /\ SecondaryRuns[n].pos = n
          /\ n < Len(SecondaryRuns) => SecondaryRuns[n].ok
    /\ (Started /\ pc \in {"return", "done"}) => Ran("secondary", 1)
    /\ \A i \in RunsOf("secondary") : \A m \in RunsOf("main") : m < i

\* A main stage failed, the secondary sequence ran all the same and stopped
\* at its third command, which failed: the fourth never ran.
C20_Witness ==
    /\ Finished
    /\ \E k \in MainPositions : Failed("main", k)
    /\ Failed("secondary", 3)
    /\ ~Ran("secondary", 4)

\* A stage of the main sequence failed in this run.
MainFailed == \E k \in MainPositions : Failed("main", k)

\* The runs of the secondary commands that are handed the failure flag.
FlaggedRuns ==
    { i \in RunsOf("secondary") : SecondaryCommands[trace[i].pos] \in TakesFailureFlag }

\* C23: the flag handed to PrintUsedAndNotUsedLibraries, ExportProjectCMake
\* and Size is true exactly when a main stage failed in this run: the three
\* get the same value, whatever the secondary stages before them returned.
C23_FailureFlagIsMainFailure ==
    /\ \A i \in FlaggedRuns : trace[i].flag = MainFailed
    /\ \A i, j \in FlaggedRuns : trace[i].flag = trace[j].flag

\* A main stage failed and the three flagged secondary stages ran.
C23_Witness ==
    /\ Finished
    /\ MainFailed
    /\ \A j \in SecondaryPositions :
          SecondaryCommands[j] \in TakesFailureFlag =>
              \E i \in FlaggedRuns : trace[i].pos = j /\ trace[i].flag

(***************************************************************************)
(*             PROPERTIES OF RunPreprocess AND RunBuilder                  *)
(***************************************************************************)

\* The runs of the commands of Preprocess.Run, in the order they happened.
PreprocessRuns == SelectSeq(trace, LAMBDA e : e.ev = "preprocess")

PreprocessPositions == 1..Len(PreprocessCommands)

\* The stages that compile or link.
CompileLinkCommands == { "BuildSketch", "BuildLibraries", "BuildCore", "Link" }

\* The call named ev was made and failed / succeeded.
CallFailed(ev) == \E i \in 1..Len(trace) : trace[i].ev = ev /\ ~trace[i].ok
CallSucceeded(ev) == \E i \in 1..Len(trace) : trace[i].ev = ev /\ trace[i].ok

\* The error of the step of Preprocess.Run that failed, nil when none did.
PreprocessFailure ==
    IF CallFailed("MkdirAll") THEN StageErr("mkdir", 0)
    ELSE IF \E k \in PreprocessPositions : Failed("preprocess", k)
    THEN StageErr("preprocess", CHOOSE k \in PreprocessPositions : Failed("preprocess", k))
    ELSE IF CallFailed("ReadFile") THEN StageErr("readfile", 0)
    ELSE NilErr

\* C16: Preprocess.Run runs its six commands in list order, each at most
\* once and only after the ones before it returned no error, and no compile,
\* link, database or secondary stage; the preprocessed sketch is written to
\* standard output, once, only when the six commands succeeded and the file
\* was read; when a step failed nothing is written and Preprocess.Run
\* returns the error of that step.
C16_PreprocessReducedSequence ==
    entry = "RunPreprocess" =>
        /\ \A n \in 1..Len(PreprocessRuns) :
              /\ PreprocessRuns[n].pos = n
              /\ n \in PreprocessPositions
              /\ PreprocessCommands[n] \notin CompileLinkCommands
              /\ n < Len(PreprocessRuns) => PreprocessRuns[n].ok
        /\ RunsOf("main") = {} /\ RunsOf("secondary") = {} /\ Saves = {}
        /\ stdout # << >> =>
              /\ stdout = << "preprocessedSketch" >>
              /\ \A k \in PreprocessPositions : Succeeded("preprocess", k)
              /\ CallSucceeded("ReadFile")
        /\ opc = "done" =>
              IF PreprocessFailure # NilErr
              THEN stdout = << >> /\ oret # NilErr /\ Cause(oret) = PreprocessFailure
              ELSE stdout = << "preprocessedSketch" >> /\ oret = NilErr

\* The six commands succeeded, reading the preprocessed file failed, and
\* Preprocess.Run has returned.
C16_Witness ==
    /\ entry = "RunPreprocess"
    /\ opc = "done"
    /\ \A k \in PreprocessPositions : Succeeded("preprocess", k)
    /\ CallFailed("ReadFile")

\* The calls of AddSubSteps and of RemoveSubSteps made so far.
Adds == { i \in 1..Len(trace) : trace[i].ev = "AddSubSteps" }
Removes == { i \in 1..Len(trace) : trace[i].ev = "RemoveSubSteps" }

\* The levels a call of RunBuilder or RunPreprocess can have registered.
NestingsOf(e) ==
    IF e = "RunBuilder"
    THEN { << >>, << Len(RunBuilderCommands) >>,
           << Len(RunBuilderCommands), Len(MainCommands) + 5 >> }
    ELSE { << >>, << Len(PreprocessCommands) >> }

\* C18: the levels registered and not yet released are those of the
\* functions still running, innermost last; when Builder.Run has returned to
\* runCommands its level is gone and the one of runCommands is still there;
\* when RunBuilder or RunPreprocess has returned, every AddSubSteps has had
\* its RemoveSubSteps and the nesting depth is the one before the call,
\* whether an error is returned or not.
C18_SubStepsReleased ==
    /\ subSteps \in NestingsOf(entry)
    /\ Len(subSteps) = Cardinality(Adds) - Cardinality(Removes)
    /\ \A r \in Removes : Cardinality({ a \in Adds : a < r }) >=
                               Cardinality({ q \in Removes : q <= r })
    /\ (entry = "RunBuilder" /\ opc = "call" /\ pc = "done") =>
           subSteps = << Len(RunBuilderCommands) >>
    /\ (entry = "RunBuilder" /\ pc \in {"main", "save", "secondary", "return"}) =>
           subSteps = << Len(RunBuilderCommands), Len(MainCommands) + 5 >>
    /\ opc = "done" =>
           /\ subSteps = << >>
           /\ Cardinality(Adds) = Cardinality(Removes)

\* RunBuilder has returned an error after both runCommands and Builder.Run
\* had registered their steps.
C18_Witness ==
    /\ entry = "RunBuilder"
    /\ opc = "done"
    /\ oret # NilErr
    /\ Cardinality(Adds) = 2

\* The events of the trace that are runs of a stage: a command of one of
\* the lists of Builder.Run or of the list handed to runCommands.
StageEvents == { "main", "secondary", "preprocess", "builder" }

StageRuns == { i \in 1..Len(trace) : trace[i].ev \in StageEvents }

\* The level registered at position a of the trace is still registered at
\* position i: every release in between released a level registered later.
OpenAt(a, i) ==
    \A r \in Removes :
        (a < r /\ r < i) =>
            Cardinality({ b \in Adds : a < b /\ b < r }) >=
                Cardinality({ q \in Removes : a < q /\ q <= r })

\* The CompleteStep calls that advanced the level registered at position a:
\* those made while it was the innermost registered level.
CompletedIn(a) ==
    { i \in CompletedSteps :
        /\ a < i /\ OpenAt(a, i)
        /\ \A b \in Adds : (b < i /\ OpenAt(b, i)) => b <= a }

\* C21: at every point of Builder.Run and of runCommands, CompleteStep has
\* been called once for each stage that returned no error, right after it,
\* and not for a stage that returned an error; the calls made on a level of
\* the tracker never exceed the count that level was registered with.
C21_CompleteStepPerSuccess ==
    /\ Cardinality(CompletedSteps) = Cardinality({ i \in StageRuns : trace[i].ok })
    /\ \A i \in CompletedSteps : (i - 1) \in StageRuns /\ trace[i - 1].ok
    /\ \A i \in StageRuns :
          (~trace[i].ok /\ i < Len(trace)) => trace[i + 1].ev # "CompleteStep"
    /\ \A i \in CompletedSteps : \E a \in Adds : i \in CompletedIn(a)
    /\ \A a \in Adds : Cardinality(CompletedIn(a)) <= trace[a].pos

\* RunBuilder has returned: Builder.Run ran its thirty main commands and two
\* secondary ones, the third failed, and the tracker advanced 32 times.
C21_Witness ==
    /\ entry = "RunBuilder"
    /\ opc = "done"
    /\ \A k \in MainPositions : Succeeded("main", k)
    /\ Failed("secondary", 3)
    /\ Cardinality(CompletedSteps) = Len(MainCommands) + 2

\* The position of the trace at which MkdirAll was called.
MkdirAllCalls == { i \in 1..Len(trace) : trace[i].ev = "MkdirAll" }

\* C24: when MkdirAll failed at the start of Builder.Run or of
\* Preprocess.Run, the function has returned that error and nothing else
\* has happened in it: no main, secondary or preprocess stage has run, no
\* step was completed, SaveCompilationDatabase was not called, and the
\* function registered and released no step budget (the only one is that of
\* the runCommands RunBuilder went through, registered before the call).
C24_MkdirFailureReturnsAtOnce ==
    CallFailed("MkdirAll") =>
        /\ RunsOf("main") = {} /\ RunsOf("secondary") = {} /\ RunsOf("preprocess") = {}
        /\ Saves = {}
        /\ CompletedSteps = {}
        /\ \A a \in Adds : entry = "RunBuilder" /\ \A m \in MkdirAllCalls : a < m
        /\ Cardinality(Removes) <= Cardinality(Adds)
        /\ entry # "RunBuilder" => Adds = {} /\ Removes = {} /\ subSteps = << >>
        /\ IF entry = "RunPreprocess"
           THEN opc = "done" /\ oret = StageErr("mkdir", 0)
           ELSE pc = "done" /\ ret = StageErr("mkdir", 0)

\* Builder.Run, called by RunBuilder, could not create the build path, and
\* RunBuilder has returned.
C24_Witness ==
    /\ entry = "RunBuilder"
    /\ opc = "done"
    /\ CallFailed("MkdirAll")
    /\ Cause(oret) = StageErr("mkdir", 0)

(***************************************************************************)
(*                    PROPERTIES OF ResolveFQBN                            *)
(***************************************************************************)

\* The last operation was ResolveFQBN; the registry is the one it ran on.
Resolved == call.op = "ResolveFQBN"

HasPackage(p) == p \in DOMAIN packages
HasPlatform(p, a) == HasPackage(p) /\ a \in DOMAIN packages[p].Platforms
HasInstalled(p, a) == HasPlatform(p, a) /\ packages[p].Platforms[a].installed
HasBoard(p, a, b) == HasInstalled(p, a) /\ b \in DOMAIN packages[p].Platforms[a].Boards
HasValidConfigs(f) == \A i \in 1..Len(f.Configs) : f.Configs[i] \in {"opt"}

\* The first step of the resolution of f the registry cannot satisfy.
FailingStep(f) ==
    CASE ~HasPackage(f.Package) -> "unknown package"
      [] ~HasPlatform(f.Package, f.PlatformArch) -> "unknown platform"
      [] ~HasInstalled(f.Package, f.PlatformArch) -> "platform not installed"
      [] ~HasBoard(f.Package, f.PlatformArch, f.BoardID) -> "board not found"
      [] ~HasValidConfigs(f) -> "getting build properties"
      [] OTHER -> "none"

\* How many of package, platform release, board, properties each step resolved.
ResolvedBefore(step) ==
    CASE step = "unknown package" -> 0
      [] step = "unknown platform" -> 1
      [] step = "platform not installed" -> 1
      [] step = "board not found" -> 2
      [] step = "getting build properties" -> 3

\* C5: when one of the steps package, platform, installed release, board,
\* build properties cannot be satisfied, ResolveFQBN returns the error of the
\* first such step, the values resolved before it non-nil, and nil for the
\* values of that step and of the later ones.
C5_StopsAtFirstFailingStep ==
    (Resolved /\ FailingStep(call.fqbn) # "none") =>
        LET n == ResolvedBefore(FailingStep(call.fqbn)) IN
        /\ res.outcome = "return"
        /\ res.err = FailingStep(call.fqbn)
        /\ (res.pkg # NilPkg) <=> (n >= 1)
        /\ (res.platformRelease # NilRelease) <=> (n >= 2)
        /\ (res.board # NilBoard) <=> (n >= 3)
        /\ res.buildProperties = NilProps
        /\ res.buildPlatformRelease = NilRelease

\* The board is missing from an installed release: package and release are
\* returned with the board-not-found error.
C5_Witness ==
    /\ Resolved
    /\ FailingStep(call.fqbn) = "board not found"
    /\ res.err = "board not found"
    /\ res.pkg # NilPkg
    /\ res.platformRelease # NilRelease

\* The resolution of f gets as far as the build.core property.
ReachesCore(f) == FailingStep(f) = "none"

\* The build.core property of the board f names.
CoreOf(f) == packages[f.Package].Platforms[f.PlatformArch].Boards[f.BoardID].core

\* build.core has the form otherpkg:core
IsQualified(core) == Len(core) = 3 /\ core[1] # Colon /\ core[2] = Colon /\ core[3] # Colon

\* C6: build.core is otherpkg:core and otherpkg has an installed release for
\* the architecture of the FQBN: that release is the build platform release
\* and the error is nil.
C6_AsStated ==
    (Resolved /\ ReachesCore(call.fqbn) /\ IsQualified(CoreOf(call.fqbn))
       /\ HasInstalled(CoreOf(call.fqbn)[1], call.fqbn.PlatformArch)) =>
        /\ res.outcome = "return"
        /\ res.err = "nil"
        /\ res.buildPlatformRelease = ReleaseOf(CoreOf(call.fqbn)[1], call.fqbn.PlatformArch)

\* C7: build.core is otherpkg:core and otherpkg is not in the registry: the
\* error is the missing-package error, package, release, board and
\* properties are returned and the build platform release is nil.
C7_AsStated ==
    (Resolved /\ ReachesCore(call.fqbn) /\ IsQualified(CoreOf(call.fqbn))
       /\ ~HasPackage(CoreOf(call.fqbn)[1])) =>
        /\ res.outcome = "return"
        /\ res.err = "missing package"
        /\ res.pkg # NilPkg
        /\ res.platformRelease # NilRelease
        /\ res.board # NilBoard
        /\ res.buildProperties # NilProps
        /\ res.buildPlatformRelease = NilRelease

\* C8: build.core is otherpkg:core and otherpkg is in the registry without
\* an installed release for the architecture of the FQBN: board and
\* properties are returned, the build platform release is nil and the error
\* is the missing-package error.
C8_AsStated ==
    (Resolved /\ ReachesCore(call.fqbn) /\ IsQualified(CoreOf(call.fqbn))
       /\ HasPackage(CoreOf(call.fqbn)[1])
       /\ ~HasInstalled(CoreOf(call.fqbn)[1], call.fqbn.PlatformArch)) =>
        /\ res.outcome = "return"
        /\ res.err = "missing package"
        /\ res.board # NilBoard
        /\ res.buildProperties # NilProps
        /\ res.buildPlatformRelease = NilRelease

\* C9: build.core holds no ":" and ResolveFQBN succeeds: the build platform
\* release is the platform release resolved from the FQBN.
C9_PlainCoreBuildsOnOwnPlatform ==
    (Resolved /\ ReachesCore(call.fqbn) /\ res.outcome = "return" /\ res.err = "nil"
       /\ \A i \in 1..Len(CoreOf(call.fqbn)) : CoreOf(call.fqbn)[i] # Colon) =>
        /\ res.buildPlatformRelease = res.platformRelease
        /\ res.buildPlatformRelease = ReleaseOf(call.fqbn.Package, call.fqbn.PlatformArch)

\* A board with a plain build.core was resolved without error.
C9_Witness ==
    /\ Resolved
    /\ ReachesCore(call.fqbn)
    /\ CoreOf(call.fqbn) = Str("arduino")
    /\ res.outcome = "return"
    /\ res.err = "nil"
    /\ res.buildPlatformRelease = ReleaseOf(call.fqbn.Package, call.fqbn.PlatformArch)

\* C10: a nil error comes with five non-nil values.
C10_AsStated ==
    (Resolved /\ res.outcome = "return" /\ res.err = "nil") =>
        /\ res.pkg # NilPkg
        /\ res.platformRelease # NilRelease
        /\ res.board # NilBoard
        /\ res.buildProperties # NilProps
        /\ res.buildPlatformRelease # NilRelease

(***************************************************************************)
(*            TOOL DEPENDENCIES  (packagemanager, part_000:223-381)        *)
(***************************************************************************)

\* Longest list of tool dependencies a platform release declares.
MaxDeps == 2

ToolNames == {"gcc"}
Versions == {1, 2}

\* cores.Tool.Releases: the known versions of a tool, each installed or not
ToolData == PartialFns(Versions, [installed : BOOLEAN])

\* cores.Package.Tools
PackageTools == PartialFns(ToolNames, ToolData)

\* cores.ToolDependency
ToolDeps == [ToolPackager : PkgNames, ToolName : ToolNames, ToolVersion : Versions]

DepLists == SeqsUpTo(ToolDeps, MaxDeps)

\* A package with one installed platform release (avr, board uno) that
\* declares the dependencies deps, and the tools of the package.
BoardPackage(deps, tools) ==
    [Platforms |-> [a \in {"avr"} |->
                      [installed |-> TRUE,
                       Boards |-> [b \in {"uno"} |-> [core |-> Str("arduino")]],
                       Dependencies |-> deps]],
     Tools |-> tools]

\* A package that only ships tools.
ToolsPackage(tools) == [Platforms |-> << >>, Tools |-> tools]

\* The registries of the tool universe: arduino owns the board, megaavr is
\* absent or ships tools.
ToolRegistries ==
    { [p \in {"arduino"} |-> BoardPackage(d, t)] : d \in DepLists, t \in PackageTools }
      \cup { [p \in PkgNames |-> IF p = "arduino" THEN BoardPackage(d, t)
                                                   ELSE ToolsPackage(u)] :
               d \in DepLists, t \in PackageTools, u \in PackageTools }

\* pointers to tools and tool releases
ToolOf(pkg, tool) == [pkg |-> pkg, tool |-> tool]
ToolReleaseOf(pkg, tool, version) == [pkg |-> pkg, tool |-> tool, version |-> version]
NilTool == [pkg |-> "nil", tool |-> "nil"]
NilToolRelease == [pkg |-> "nil", tool |-> "nil", version |-> 0]

\* ToolRelease.IsInstalled()
IsInstalled(pkgs, rel) == pkgs[rel.pkg].Tools[rel.tool][rel.version].installed

\* Tool.GetRelease(version): the release of that version, nil when unknown
GetRelease(pkgs, tool, version) ==
    IF version \in DOMAIN pkgs[tool.pkg].Tools[tool.tool]
    THEN ToolReleaseOf(tool.pkg, tool.tool, version)
    ELSE NilToolRelease

\* Tool.GetLatestInstalled(): the installed release of the highest version,
\* nil when no release is installed
GetLatestInstalled(pkgs, tool) ==
    LET inst == { v \in DOMAIN pkgs[tool.pkg].Tools[tool.tool] :
                      pkgs[tool.pkg].Tools[tool.tool][v].installed }
    IN IF inst = {} THEN NilToolRelease
       ELSE ToolReleaseOf(tool.pkg, tool.tool, CHOOSE v \in inst : \A w \in inst : w <= v)

\* Tool.GetLatest(): the release of the highest known version (not used by
\* the package manager; the faulty seeding below calls it)
GetLatestKnown(pkgs, tool) ==
    LET known == DOMAIN pkgs[tool.pkg].Tools[tool.tool]
    IN IF known = {} THEN NilToolRelease
       ELSE ToolReleaseOf(tool.pkg, tool.tool, CHOOSE v \in known : \A w \in known : w <= v)

\* part_000:225-236  PackageManager.Package
Package(pkgs, name) ==
    IF name \in DOMAIN pkgs
    THEN [aPackage |-> name, forwardError |-> "nil"]
    ELSE [aPackage |-> NilPkg, forwardError |-> "package not found"]

\* part_000:249-263  packageActions.Tool
Tool(pkgs, pa, name) ==
    IF pa.forwardError # "nil"
    THEN [tool |-> NilTool, forwardError |-> pa.forwardError]
    ELSE IF name \in DOMAIN pkgs[pa.aPackage].Tools
         THEN [tool |-> ToolOf(pa.aPackage, name), forwardError |-> "nil"]
         ELSE [tool |-> NilTool, forwardError |-> "tool not found"]

\* part_000:299-308  toolActions.Release
Release(pkgs, ta, version) ==
    IF ta.forwardError # "nil"
    THEN [release |-> NilToolRelease, forwardError |-> ta.forwardError]
    ELSE LET release == GetRelease(pkgs, ta.tool, version) IN
         IF release = NilToolRelease
         THEN [release |-> NilToolRelease, forwardError |-> "release not found"]
         ELSE [release |-> release, forwardError |-> "nil"]

\* part_000:319-324  toolReleaseActions.Get
Get(tra) ==
    IF tra.forwardError # "nil"
    THEN [release |-> NilToolRelease, err |-> tra.forwardError]
    ELSE [release |-> tra.release, err |-> "nil"]

\* part_000:375-381  PackageManager.FindToolDependency
FindToolDependency(pkgs, dep) ==
    LET got == Get(Release(pkgs, Tool(pkgs, Package(pkgs, dep.ToolPackager),
                                      dep.ToolName), dep.ToolVersion))
    IN IF got.err # "nil" THEN NilToolRelease ELSE got.release

\* rel.Tool.String(): the key "PACKAGER:TOOL" of the map foundTools
ToolKey(rel) == <<rel.pkg, rel.tool>>

\* The tools of every package of the registry.
AllTools(pkgs) ==
    { ToolOf(p, t) : p \in DOMAIN pkgs, t \in ToolNames } \cap
    UNION { { ToolOf(p, t) : t \in DOMAIN pkgs[p].Tools } : p \in DOMAIN pkgs }

\* Faulty variant of SeedTools: the newest known release is taken, whether
\* it is installed or not.
SeedToolsLatestKnown(pkgs) ==
    LET have == { tool \in AllTools(pkgs) : GetLatestKnown(pkgs, tool) # NilToolRelease }
    IN [k \in { <<tool.pkg, tool.tool>> : tool \in have } |->
            GetLatestKnown(pkgs, ToolOf(k[1], k[2]))]

\* part_000:346-357  foundTools after the default pass
SeedTools(pkgs) ==
    LET have == { tool \in AllTools(pkgs) : GetLatestInstalled(pkgs, tool) # NilToolRelease }
    IN [k \in { ToolKey(GetLatestInstalled(pkgs, tool)) : tool \in have } |->
            GetLatestInstalled(pkgs, ToolOf(k[1], k[2]))]

\* foundTools[key] = rel
Put(found, key, rel) ==
    [k \in DOMAIN found \cup {key} |-> IF k = key THEN rel ELSE found[k]]

\* The loop state of FindToolsRequiredForBoard: the map and the error, if any.
Found(found, err) == [found |-> found, err |-> err]

\* Faulty variant of ApplyDep: a default already in the map is kept.
ApplyDepKeepsDefault(pkgs, st, dep) ==
    LET tool == FindToolDependency(pkgs, dep) IN
    IF tool = NilToolRelease
    THEN Found(st.found, "tool release not found")
    ELSE IF ToolKey(tool) \in DOMAIN st.found
         THEN st
         ELSE Found(Put(st.found, ToolKey(tool), tool), "nil")

\* part_000:360-366  one iteration of the loop over platform.Dependencies
ApplyDep(pkgs, st, dep) ==
    LET tool == FindToolDependency(pkgs, dep) IN
    IF tool = NilToolRelease
    THEN Found(st.found, "tool release not found")
    ELSE Found(Put(st.found, ToolKey(tool), tool), "nil")

\* part_000:360-366  the loop, left at the first dependency that is not found
RECURSIVE ApplyDeps(_, _, _)
ApplyDeps(pkgs, st, deps) ==
    IF deps = << >> \/ st.err # "nil"
    THEN st
    ELSE ApplyDeps(pkgs, ApplyDep(pkgs, st, Head(deps)), Tail(deps))

\* part_000:363, 368-372  what FindToolsRequiredForBoard returns: the values of
\* the map in no particular order, or nil and the error
ToolsResult(st) ==
    IF st.err # "nil"
    THEN [outcome |-> "return", tools |-> {}, isNil |-> TRUE, err |-> st.err]
    ELSE [outcome |-> "return", tools |-> { st.found[k] : k \in DOMAIN st.found },
          isNil |-> FALSE, err |-> "nil"]

\* part_000:343  platform := board.PlatformRelease, and its Dependencies
DependenciesOf(pkgs, board) == pkgs[board.pkg].Platforms[board.arch].Dependencies

\* part_000:340-373  PackageManager.FindToolsRequiredForBoard
FindToolsRequiredForBoard(pkgs, board) ==
    ToolsResult(ApplyDeps(pkgs, Found(SeedTools(pkgs), "nil"), DependenciesOf(pkgs, board)))

\* The boards of the installed releases of the registry.
InstalledBoards(pkgs) ==
    { b \in [pkg : DOMAIN pkgs, arch : Archs, id : BoardIDs] :
         /\ b.arch \in DOMAIN pkgs[b.pkg].Platforms
         /\ pkgs[b.pkg].Platforms[b.arch].installed
         /\ b.id \in DOMAIN pkgs[b.pkg].Platforms[b.arch].Boards }

\* The registry after the lookups of the packagers of deps (part_000:228).
RECURSIVE PackagesAfterLookups(_, _)
PackagesAfterLookups(pkgs, deps) ==
    IF deps = << >> THEN pkgs
    ELSE PackagesAfterLookups(PackagesAfterLookup(pkgs, Head(deps).ToolPackager), Tail(deps))

\* part_000:340-373  one call of PackageManager.FindToolsRequiredForBoard
CallFindToolsRequiredForBoard ==
    \E board \in InstalledBoards(packages) :
        /\ call' = [op |-> "FindToolsRequiredForBoard", board |-> board]
        /\ res' = FindToolsRequiredForBoard(packages, board)
        /\ packages' = PackagesAfterLookups(packages, DependenciesOf(packages, board))

\* part_000:375-381  one call of PackageManager.FindToolDependency
CallFindToolDependency ==
    \E dep \in ToolDeps :
        /\ call' = [op |-> "FindToolDependency", dep |-> dep]
        /\ res' = [outcome |-> "return", release |-> FindToolDependency(packages, dep)]
        /\ packages' = PackagesAfterLookup(packages, dep.ToolPackager)

\* FQBN strings: package:arch:board, with or without a fourth part.
FqbnString(fqbn) ==
    <<fqbn.Package, Colon, fqbn.PlatformArch, Colon, fqbn.BoardID>>
      \o (IF fqbn.Configs = << >> THEN << >> ELSE <<Colon, fqbn.Configs[1]>>)

\* The FQBNs that select no menu option.
PlainFQBNs == { f \in FQBNs : f.Configs = << >> }

\* The strings handed to FindBoardWithFQBN: well-formed ones and one with
\* too few parts.
FqbnStrings ==
    { FqbnString(f) : f \in PlainFQBNs } \cup { <<"arduino", Colon, "avr">> }

NilFQBN == [Package |-> "", PlatformArch |-> "", BoardID |-> "", Configs |-> << >>]

\* cores.ParseFQBN: three or four parts separated by ":", nil otherwise
ParseFQBN(fqbnIn) ==
    LET parts == Split(fqbnIn) IN
    IF Len(parts) < 3 \/ Len(parts) > 4 THEN NilFQBN
    ELSE [Package |-> KeyOf(parts[1]), PlatformArch |-> KeyOf(parts[2]),
          BoardID |-> KeyOf(parts[3]),
          Configs |-> IF Len(parts) = 4 THEN <<KeyOf(parts[4])>> ELSE << >>]

\* part_000:115-123  PackageManager.FindBoardWithFQBN: the possible results
FindBoardWithFQBN(pkgs, fqbnIn) ==
    LET fqbn == ParseFQBN(fqbnIn) IN
    IF fqbn = NilFQBN
    THEN { [outcome |-> "return", board |-> NilBoard, err |-> "parsing fqbn"] }
    ELSE { [outcome |-> r.outcome, board |-> r.board, err |-> r.err] :
             r \in ResolveFQBN(pkgs, fqbn) }

\* part_000:115-123  one call of PackageManager.FindBoardWithFQBN
CallFindBoardWithFQBN ==
    \E fqbnIn \in FqbnStrings :
      \E r \in FindBoardWithFQBN(packages, fqbnIn) :
        /\ call' = [op |-> "FindBoardWithFQBN", fqbnIn |-> fqbnIn]
        /\ res' = r
        /\ packages' = IF ParseFQBN(fqbnIn) = NilFQBN THEN packages
                       ELSE PackagesAfterLookup(packages, ParseFQBN(fqbnIn).Package)

\* A package manager whose registry holds tools and a board that needs them.
ToolsPopulated ==
    /\ packages \in ToolRegistries
    /\ call = NoCall
    /\ res = NoResult

ToolInit == BuilderInit /\ PipeIdle /\ ToolsPopulated /\ Alone

ToolNext ==
    \/ CallFindToolsRequiredForBoard /\ UNCHANGED outsidePM
    \/ CallFindToolDependency /\ UNCHANGED outsidePM
    \/ ResolveCall(PlainFQBNs) /\ UNCHANGED outsidePM
    \/ CallFindBoardWithFQBN /\ UNCHANGED outsidePM
    \/ Clear /\ UNCHANGED outsidePM

\* A package manager with tools answering resolution calls.
ToolSpec == ToolInit /\ [][ToolNext]_vars

(***************************************************************************)
(*        REGISTRY LIFECYCLE: LoadPackageIndex, Clear, the finders         *)
(***************************************************************************)

MaxLog == 3

\* USB identifiers.
Vids == {"2341"}
Pids == {"0043", "0001"}

\* The board ids a caller may ask for: the known one and one no board has.
AskedBoardIDs == BoardIDs \cup {"nano"}

\* The content of one package of an index: a platform avr with one release,
\* installed or not, whose board uno carries one USB id, and the tool gcc
\* with release 1 not installed and release 2 installed or not.
IndexPackage(installed, pid) ==
    [Platforms |-> [a \in {"avr"} |->
                      [installed |-> installed,
                       Boards |-> [b \in {"uno"} |->
                                     [core |-> Str("arduino"),
                                      usb |-> { <<"2341", pid>> }]],
                       Dependencies |-> << >>]],
     Tools |-> [t \in {"gcc"} |->
                  [v \in Versions |-> [installed |-> (v = 2 /\ installed)]]]]

\* The package indexes LoadIndex can produce: one package each.
Indexes ==
    { [p \in {n} |-> IndexPackage(i, pid)] : n \in PkgNames, i \in BOOLEAN, pid \in Pids }

\* index.MergeIntoPackages(pm.packages): the packages of the index are added
\* to the registry; a package the registry already has is kept.
MergeIntoPackages(index, pkgs) ==
    [p \in DOMAIN pkgs \cup DOMAIN index |->
        IF p \in DOMAIN pkgs THEN pkgs[p] ELSE index[p]]

\* board.HasUsbID(vid, pid)
HasUsbID(pkgs, board, vid, pid) ==
    <<vid, pid>> \in pkgs[board.pkg].Platforms[board.arch].Boards[board.id].usb

\* Faulty variant of BoardsOfInstalledReleases: the boards of every platform,
\* whether its release is installed or not.
BoardsOfAllReleases(pkgs) ==
    { BoardOf(p, a, b) : p \in DOMAIN pkgs, a \in Archs, b \in BoardIDs } \cap
    UNION { UNION { { BoardOf(p, a, b) : b \in DOMAIN pkgs[p].Platforms[a].Boards }
                    : a \in DOMAIN pkgs[p].Platforms } : p \in DOMAIN pkgs }

\* part_000:84-86,100-102  the boards the two finders loop over: those of the
\* installed release of every platform of every package
BoardsOfInstalledReleases(pkgs) ==
    { BoardOf(p, a, b) : p \in DOMAIN pkgs, a \in Archs, b \in BoardIDs } \cap
    UNION { UNION { IF GetInstalled(pkgs, p, a) # NilRelease
                    THEN { BoardOf(p, a, b) : b \in DOMAIN pkgs[p].Platforms[a].Boards }
                    ELSE {} : a \in DOMAIN pkgs[p].Platforms } : p \in DOMAIN pkgs }

\* part_000:82-96  PackageManager.FindBoardsWithVidPid (the list, as a set)
FindBoardsWithVidPid(pkgs, vid, pid) ==
    { board \in BoardsOfInstalledReleases(pkgs) : HasUsbID(pkgs, board, vid, pid) }

\* part_000:98-112  PackageManager.FindBoardsWithID (the list, as a set)
FindBoardsWithID(pkgs, id) ==
    { board \in BoardsOfInstalledReleases(pkgs) : board.id = id }

\* part_000:326-338  PackageManager.GetAllInstalledToolsReleases (as a set)
GetAllInstalledToolsReleases(pkgs) ==
    UNION { UNION { { ToolReleaseOf(p, t, v) :
                        v \in { w \in DOMAIN pkgs[p].Tools[t] :
                                   IsInstalled(pkgs, ToolReleaseOf(p, t, w)) } }
                    : t \in DOMAIN pkgs[p].Tools } : p \in DOMAIN pkgs }

\* part_000:207-221  PackageManager.LoadPackageIndex: the index path or the
\* index file cannot be had and the registry is left as it is, or the index
\* is merged into the registry
LoadPackageIndex ==
    /\ Len(log) < MaxLog
    /\ \E err \in {"nil", "retrieving json index path", "loading json index file"} :
         /\ call' = [NoCall EXCEPT !.op = "LoadPackageIndex"]
         /\ res' = [outcome |-> "return", err |-> err]
         /\ IF err # "nil"
            THEN /\ packages' = packages
                 /\ log' = log
            ELSE \E index \in Indexes :
                   /\ packages' = MergeIntoPackages(index, packages)
                   /\ log' = Append(log, "Load")

\* part_000:74-76  Clear, recorded in the log
LoggedClear ==
    /\ Len(log) < MaxLog
    /\ Clear
    /\ log' = Append(log, "Clear")

\* part_000:98-112  one call of PackageManager.FindBoardsWithID
CallFindBoardsWithID ==
    \E id \in AskedBoardIDs :
        /\ call' = [op |-> "FindBoardsWithID", id |-> id]
        /\ res' = [outcome |-> "return", boards |-> FindBoardsWithID(packages, id)]
        /\ packages' = packages

\* part_000:82-96  one call of PackageManager.FindBoardsWithVidPid
CallFindBoardsWithVidPid ==
    \E vid \in Vids, pid \in Pids :
        /\ call' = [op |-> "FindBoardsWithVidPid", vid |-> vid, pid |-> pid]
        /\ res' = [outcome |-> "return", boards |-> FindBoardsWithVidPid(packages, vid, pid)]
        /\ packages' = packages

\* part_000:326-338  one call of PackageManager.GetAllInstalledToolsReleases
CallGetAllInstalledToolsReleases ==
    /\ call' = [NoCall EXCEPT !.op = "GetAllInstalledToolsReleases"]
    /\ res' = [outcome |-> "return", tools |-> GetAllInstalledToolsReleases(packages)]
    /\ packages' = packages

\* part_000:67-72  NewPackageManager
NewPackageManager ==
    /\ packages = NewPackages
    /\ call = NoCall
    /\ res = NoResult
    /\ log = << >>
    /\ procs = << >>
    /\ eventHandler = NilHandler

RegInit == BuilderInit /\ PipeIdle /\ NewPackageManager

RegNext ==
    \/ LoadPackageIndex /\ UNCHANGED <<builderVars, pipeVars, procs, eventHandler>>
    \/ LoggedClear /\ UNCHANGED <<builderVars, pipeVars, procs, eventHandler>>
    \/ RegisterEventHandler /\ UNCHANGED <<builderVars, pipeVars, log, procs>>
    \/ ResolveCall(PlainFQBNs) /\ UNCHANGED outsidePM
    \/ CallFindBoardsWithID /\ UNCHANGED outsidePM
    \/ CallFindBoardsWithVidPid /\ UNCHANGED outsidePM
    \/ CallGetAllInstalledToolsReleases /\ UNCHANGED outsidePM

\* A package manager from its construction on: loads, clears and queries.
RegSpec == RegInit /\ [][RegNext]_vars

(***************************************************************************)
(*      CONCURRENT RESOLUTIONS: goroutines sharing a PackageManager        *)
(***************************************************************************)

MaxProcs == 2

Procs == 1..MaxProcs

\* The registries the goroutines share: arduino owns the board and both
\* releases of gcc, installed, and depends on nothing or on release 1 of a
\* gcc; megaavr is absent or ships release 1 of gcc.
SharedRegistries ==
    LET gccs == [t \in {"gcc"} |-> [v \in Versions |-> [installed |-> TRUE]]]
        gcc1 == [t \in {"gcc"} |-> [v \in {1} |-> [installed |-> TRUE]]]
        deps == { << >> } \cup
                { << [ToolPackager |-> n, ToolName |-> "gcc", ToolVersion |-> 1] >> :
                    n \in PkgNames }
    IN { [p \in {"arduino"} |-> BoardPackage(d, gccs)] : d \in deps }
         \cup { [p \in PkgNames |-> IF p = "arduino" THEN BoardPackage(d, gccs)
                                                      ELSE ToolsPackage(gcc1)] : d \in deps }

\* The FQBNs the goroutines resolve.
SharedFQBNs == { f \in PlainFQBNs : f.PlatformArch = "avr" }

\* A goroutine that has not called yet: every local is at its zero value.
IdleProc ==
    [op |-> "none", at |-> "idle", overlapped |-> FALSE,
     fqbn |-> NoCall.fqbn, targetPackage |-> NilPkg, platformRelease |-> NilRelease,
     board |-> NilBoard, buildProperties |-> NilProps,
     foundTools |-> Found(<< >>, "nil"), rest |-> << >>,
     result |-> NoResult]

\* Some other goroutine is inside a call.
OthersRunning(ps, p) == \E q \in DOMAIN ps : q # p /\ ps[q].at \notin {"idle", "done"}

\* The goroutine p moves to its next statement with the locals in next.
Moved(ps, p, next) ==
    [ps EXCEPT ![p] = [next EXCEPT !.overlapped = ps[p].overlapped \/ OthersRunning(ps, p)]]

\* The goroutine p returns r.
Finish(ps, p, r) == Moved(ps, p, [ps[p] EXCEPT !.at = "done", !.result = r])

\* Faulty variant of StoreFoundTools: the map is a field of the package
\* manager, one for all the goroutines.
StoreFoundToolsShared(ps, p, st, rest) ==
    LET all == [q \in DOMAIN ps |-> [ps[q] EXCEPT !.foundTools = st]]
    IN Moved(all, p, [all[p] EXCEPT !.at = "deps", !.rest = rest])

\* part_000:346,365  foundTools is a local of the call: the goroutine p
\* writes its own map
StoreFoundTools(ps, p, st, rest) ==
    Moved(ps, p, [ps[p] EXCEPT !.at = "deps", !.foundTools = st, !.rest = rest])

\* A goroutine calls ResolveFQBN or FindToolsRequiredForBoard.
ProcCall(p) ==
    /\ procs[p].at = "idle"
    /\ \/ \E fqbn \in SharedFQBNs :
            procs' = Moved(procs, p, [procs[p] EXCEPT !.op = "ResolveFQBN",
                                                      !.at = "package", !.fqbn = fqbn])
       \/ \E board \in InstalledBoards(packages) :
            procs' = Moved(procs, p, [procs[p] EXCEPT !.op = "FindToolsRequiredForBoard",
                                                      !.at = "seed", !.board = board])
    /\ packages' = packages

\* part_000:142-147  ResolveFQBN: find the package
ProcFindPackage(p) ==
    LET me == procs[p] IN
    /\ me.at = "package"
    /\ IF me.fqbn.Package \notin DOMAIN packages
       THEN \E r \in ResolveFQBN(packages, me.fqbn) : procs' = Finish(procs, p, r)
       ELSE procs' = Moved(procs, p, [me EXCEPT !.at = "platform",
                                                !.targetPackage = me.fqbn.Package])
    /\ packages' = PackagesAfterLookup(packages, me.fqbn.Package)

\* part_000:149-159  ResolveFQBN: find the platform and its installed release
ProcFindPlatform(p) ==
    LET me == procs[p] IN
    /\ me.at = "platform"
    /\ IF \/ me.fqbn.PlatformArch \notin DOMAIN packages[me.targetPackage].Platforms
          \/ GetInstalled(packages, me.targetPackage, me.fqbn.PlatformArch) = NilRelease
       THEN \E r \in ResolvePlatform(packages, me.fqbn, me.targetPackage) :
                procs' = Finish(procs, p, r)
       ELSE procs' = Moved(procs, p,
                [me EXCEPT !.at = "board",
                           !.platformRelease =
                               GetInstalled(packages, me.targetPackage, me.fqbn.PlatformArch)])
    /\ packages' = packages

\* part_000:161-172  ResolveFQBN: find the board and its build properties
ProcFindBoard(p) ==
    LET me == procs[p]
        boards == packages[me.platformRelease.pkg].Platforms[me.platformRelease.arch].Boards
    IN
    /\ me.at = "board"
    /\ IF me.fqbn.BoardID \notin DOMAIN boards \/ ~ConfigsValid(me.fqbn.Configs)
       THEN \E r \in ResolveBoard(packages, me.fqbn, me.targetPackage, me.platformRelease) :
                procs' = Finish(procs, p, r)
       ELSE LET board == BoardOf(me.targetPackage, me.fqbn.PlatformArch, me.fqbn.BoardID) IN
            procs' = Moved(procs, p,
                [me EXCEPT !.at = "build", !.board = board,
                           !.buildProperties =
                               GetBuildProperties(packages, board, me.fqbn.Configs)])
    /\ packages' = packages

\* part_000:174-190  ResolveFQBN: find the build platform and return
ProcFindBuildPlatform(p) ==
    LET me == procs[p] IN
    /\ me.at = "build"
    /\ \E r \in ResolveBuildPlatform(packages, me.fqbn, me.targetPackage,
                                      me.platformRelease, me.board, me.buildProperties) :
           procs' = Finish(procs, p, r)
    /\ packages' = packages

\* part_000:343-357  FindToolsRequiredForBoard: the default pass
ProcSeedTools(p) ==
    LET me == procs[p] IN
    /\ me.at = "seed"
    /\ procs' = StoreFoundTools(procs, p, Found(SeedTools(packages), "nil"),
                                DependenciesOf(packages, me.board))
    /\ packages' = packages

\* part_000:360-372  FindToolsRequiredForBoard: one iteration of the loop
\* over the dependencies, or the return when the loop is over
ProcApplyDep(p) ==
    LET me == procs[p] IN
    /\ me.at = "deps"
    /\ IF me.rest = << >> \/ me.foundTools.err # "nil"
       THEN procs' = Finish(procs, p, ToolsResult(me.foundTools))
       ELSE procs' = StoreFoundTools(procs, p,
                                    ApplyDep(packages, me.foundTools, Head(me.rest)),
                                    Tail(me.rest))
    /\ packages' = IF me.rest = << >> \/ me.foundTools.err # "nil" THEN packages
                   ELSE PackagesAfterLookup(packages, Head(me.rest).ToolPackager)

\* The goroutines have been started on a loaded package manager.
Shared ==
    /\ packages \in SharedRegistries
    /\ call = NoCall
    /\ res = NoResult
    /\ log = << >>
    /\ procs = [p \in Procs |-> IdleProc]
    /\ eventHandler = NilHandler

ConcInit == BuilderInit /\ PipeIdle /\ Shared

ConcNext ==
    \/ \E p \in Procs : ProcCall(p) /\ UNCHANGED <<builderVars, pipeVars, call, res, log, eventHandler>>
    \/ \E p \in Procs : ProcFindPackage(p) /\ UNCHANGED <<builderVars, pipeVars, call, res, log, eventHandler>>
    \/ \E p \in Procs : ProcFindPlatform(p) /\ UNCHANGED <<builderVars, pipeVars, call, res, log, eventHandler>>
    \/ \E p \in Procs : ProcFindBoard(p) /\ UNCHANGED <<builderVars, pipeVars, call, res, log, eventHandler>>
    \/ \E p \in Procs : ProcFindBuildPlatform(p) /\ UNCHANGED <<builderVars, pipeVars, call, res, log, eventHandler>>
    \/ \E p \in Procs : ProcSeedTools(p) /\ UNCHANGED <<builderVars, pipeVars, call, res, log, eventHandler>>
    \/ \E p \in Procs : ProcApplyDep(p) /\ UNCHANGED <<builderVars, pipeVars, call, res, log, eventHandler>>

\* Goroutines calling the resolution operations of one package manager, a
\* statement group at a time, with neither Clear nor LoadPackageIndex.
ConcSpec == ConcInit /\ [][ConcNext]_vars

(***************************************************************************)
(*               PROPERTIES OF THE TOOL RESOLUTION                         *)
(***************************************************************************)

\* The last operation was FindToolsRequiredForBoard.
ToolsAsked == call.op = "FindToolsRequiredForBoard"

\* The dependencies declared by the platform release of the board asked for.
AskedDeps == DependenciesOf(packages, call.board)

\* The release dep names is known to the registry and installed.
DepInstalled(dep) ==
    /\ dep.ToolPackager \in DOMAIN packages
    /\ dep.ToolName \in DOMAIN packages[dep.ToolPackager].Tools
    /\ dep.ToolVersion \in DOMAIN packages[dep.ToolPackager].Tools[dep.ToolName]
    /\ packages[dep.ToolPackager].Tools[dep.ToolName][dep.ToolVersion].installed

\* C11: when the platform release declares a dependency on a tool version
\* that is not installed (unknown package, tool or version, or a known
\* version that is not installed), FindToolsRequiredForBoard returns the
\* tool-release-not-found error and a nil result.
C11_AsStated ==
    (ToolsAsked /\ \E i \in 1..Len(AskedDeps) : ~DepInstalled(AskedDeps[i])) =>
        /\ res.err = "tool release not found"
        /\ res.isNil

\* The latest installed release of every tool of the registry that has one.
LatestInstalledReleases ==
    { r \in [pkg : DOMAIN packages, tool : ToolNames, version : Versions] :
        /\ DepInstalled([ToolPackager |-> r.pkg, ToolName |-> r.tool,
                         ToolVersion |-> r.version])
        /\ \A w \in Versions :
              DepInstalled([ToolPackager |-> r.pkg, ToolName |-> r.tool,
                            ToolVersion |-> w]) => w <= r.version }

\* C12: when the platform release declares no tool dependency,
\* FindToolsRequiredForBoard returns, with a nil error, exactly the latest
\* installed release of each tool of each package that has an installed
\* release.
C12_DefaultsAreLatestInstalled ==
    (ToolsAsked /\ AskedDeps = << >>) =>
        /\ res.err = "nil"
        /\ ~res.isNil
        /\ res.tools = LatestInstalledReleases

\* No dependency is declared, two packages ship the same tool, one of them
\* with two installed versions, and both latest releases are returned.
C12_Witness ==
    /\ ToolsAsked
    /\ AskedDeps = << >>
    /\ Cardinality(res.tools) = 2
    /\ \E r \in res.tools :
          /\ r.version = 2
          /\ DepInstalled([ToolPackager |-> r.pkg, ToolName |-> r.tool, ToolVersion |-> 1])

\* The last dependency of the list that pins the tool of the i-th one.
LastPin(deps, i) ==
    CHOOSE j \in i..Len(deps) :
        /\ deps[j].ToolPackager = deps[i].ToolPackager
        /\ deps[j].ToolName = deps[i].ToolName
        /\ \A h \in (j + 1)..Len(deps) :
              ~(deps[h].ToolPackager = deps[i].ToolPackager
                  /\ deps[h].ToolName = deps[i].ToolName)

\* C13: a successful result holds at most one release per (packager, tool),
\* and for every pinned tool that release is the one of the last pin.
C13_OneReleasePerToolPinsWin ==
    (ToolsAsked /\ res.err = "nil") =>
        /\ \A r1, r2 \in res.tools :
              (r1.pkg = r2.pkg /\ r1.tool = r2.tool) => r1 = r2
        /\ \A i \in 1..Len(AskedDeps) :
              LET pin == AskedDeps[LastPin(AskedDeps, i)] IN
              /\ ToolReleaseOf(pin.ToolPackager, pin.ToolName, pin.ToolVersion) \in res.tools
              /\ \A r \in res.tools :
                    (r.pkg = pin.ToolPackager /\ r.tool = pin.ToolName)
                        => r.version = pin.ToolVersion

\* A tool with versions 1 and 2 installed is pinned twice, last to version 1:
\* the result holds version 1, not the latest installed one.
C13_Witness ==
    /\ ToolsAsked
    /\ res.err = "nil"
    /\ Len(AskedDeps) = 2
    /\ AskedDeps[1].ToolPackager = AskedDeps[2].ToolPackager
    /\ AskedDeps[1].ToolVersion = 2
    /\ AskedDeps[2].ToolVersion = 1
    /\ DepInstalled(AskedDeps[1])
    /\ ToolReleaseOf(AskedDeps[2].ToolPackager, "gcc", 1) \in res.tools

\* The operations that only resolve.
ResolutionOps ==
    { "ResolveFQBN", "FindBoardWithFQBN", "FindToolsRequiredForBoard", "FindToolDependency" }

\* C14: a step of ResolveFQBN, FindBoardWithFQBN, FindToolsRequiredForBoard
\* or FindToolDependency leaves the registry as it was, whatever it returns.
C14_ResolutionLeavesRegistry ==
    [][call'.op \in ResolutionOps => packages' = packages]_vars

\* A tool resolution failed on a registry that holds packages.
C14_Witness ==
    /\ ToolsAsked
    /\ res.err # "nil"
    /\ packages # NewPackages

(***************************************************************************)
(*                 PROPERTIES OF THE REGISTRY LIFECYCLE                    *)
(***************************************************************************)

\* Clear has been called and no index has been merged since.
Cleared == log # << >> /\ log[Len(log)] = "Clear"

\* An index had been merged before the last change of the registry.
LoadedBefore == \E i \in 1..(Len(log) - 1) : log[i] = "Load"

\* C19: after Clear, whatever loads came before it and until an index is
\* merged again, the registry holds no package: ResolveFQBN returns the
\* unknown-package error, FindBoardsWithID, FindBoardsWithVidPid and
\* GetAllInstalledToolsReleases return empty lists.
C19_ClearEmptiesRegistry ==
    Cleared =>
        /\ packages = NewPackages
        /\ call.op = "ResolveFQBN" =>
               res.outcome = "return" /\ res.err = "unknown package"
        /\ call.op \in {"FindBoardsWithID", "FindBoardsWithVidPid"} => res.boards = {}
        /\ call.op = "GetAllInstalledToolsReleases" => res.tools = {}

\* Indexes were loaded, the registry was cleared, and a finder was called.
C19_Witness ==
    /\ Cleared
    /\ LoadedBefore
    /\ call.op = "FindBoardsWithID"
    /\ res.boards = {}

(***************************************************************************)
(*                PROPERTIES OF CONCURRENT RESOLUTIONS                     *)
(***************************************************************************)

\* The goroutine p has returned from its call.
Returns(p) == procs[p].at = "done"

\* C15: with neither Clear nor LoadPackageIndex running, whatever the
\* interleaving of the goroutines, a call of ResolveFQBN or of
\* FindToolsRequiredForBoard returns what the same call returns when it runs
\* alone on the registry, and the registry is the one the calls started on.
C15_InterleavedCallsAsAlone ==
    /\ packages \in SharedRegistries
    /\ \A p \in Procs :
          Returns(p) =>
            IF procs[p].op = "ResolveFQBN"
            THEN procs[p].result \in ResolveFQBN(packages, procs[p].fqbn)
            ELSE procs[p].result = FindToolsRequiredForBoard(packages, procs[p].board)

\* Two goroutines ran while the other was inside its call: one asked for the
\* tools of a board whose platform pins release 1 of gcc, the other resolved
\* an FQBN, and both have returned.
C15_Witness ==
    \E p, q \in Procs :
        /\ Returns(p) /\ procs[p].overlapped
        /\ Returns(q) /\ procs[q].overlapped
        /\ procs[p].op = "FindToolsRequiredForBoard"
        /\ \E r \in procs[p].result.tools : r.version = 1
        /\ procs[q].op = "ResolveFQBN"
        /\ procs[q].result.err = "nil"

\* The boards the registry knows, with the platform that owns each.
KnownBoards ==
    { b \in [pkg : PkgNames, arch : Archs, id : BoardIDs] :
        /\ HasPlatform(b.pkg, b.arch)
        /\ b.id \in DOMAIN packages[b.pkg].Platforms[b.arch].Boards }

\* The USB ids the board b declares.
UsbIDsOf(b) == packages[b.pkg].Platforms[b.arch].Boards[b.id].usb

\* C22: FindBoardsWithID returns the boards with the given id, and
\* FindBoardsWithVidPid the boards declaring the given USB vid and pid, of
\* the platforms that have an installed release: each of them, and no board
\* of a platform without an installed release.
C22_FindersReturnInstalledMatches ==
    /\ call.op = "FindBoardsWithID" =>
          res.boards = { b \in KnownBoards :
                           HasInstalled(b.pkg, b.arch) /\ b.id = call.id }
    /\ call.op = "FindBoardsWithVidPid" =>
          res.boards = { b \in KnownBoards :
                           HasInstalled(b.pkg, b.arch) /\ <<call.vid, call.pid>> \in UsbIDsOf(b) }

\* Two packages know a board with the USB id asked for, one of them has no
\* installed release, and FindBoardsWithVidPid returned the other's board.
C22_Witness ==
    /\ call.op = "FindBoardsWithVidPid"
    /\ Cardinality(res.boards) = 1
    /\ Cardinality({ b \in KnownBoards : <<call.vid, call.pid>> \in UsbIDsOf(b) }) = 2

\* C25: once a handler is registered it stays the registered handler for
\* good, through Clear and through every other operation, and every later
\* call of RegisterEventHandler panics.
C25_OneEventHandler ==
    [][eventHandler # NilHandler =>
          /\ eventHandler' = eventHandler
          /\ call'.op = "RegisterEventHandler" => res'.outcome = "panic"]_vars

\* A handler was registered, the registry was cleared, and the registration
\* of another handler has panicked.
C25_Witness ==
    /\ Cleared
    /\ call.op = "RegisterEventHandler"
    /\ res.outcome = "panic"
    /\ call.handler \in Handlers
    /\ eventHandler \in Handlers
    /\ call.handler # eventHandler

====
